---- MODULE Spec2Model ----
(***************************************************************************)
(* Model of JobQueue (src/lib/modules/queue.js): the in-memory job store,  *)
(* the scheduler (getNextJob), the retry policy, the worker loops and the  *)
(* stop() protocol, as they run on the Node.js event loop.                 *)
(*                                                                         *)
(* Event-loop discipline.  A worker loop is an async function: between two *)
(* awaits it runs atomically.  The continuation of an await is a microtask *)
(* (pc "got" after `await this.getNextJob()`, pc "post" after              *)
(* `await this.executeJob()`); timers (sleep, the timeout of the race, the *)
(* delay timer of add(), the poll of stop()) are macrotasks and run only   *)
(* when no microtask is pending.  Calls of the public API may come from    *)
(* anywhere, also from a microtask of the embedding application.           *)
(*                                                                         *)
(* Time is Date.now() in units of config.retryDelay; the clock does not    *)
(* advance while microtasks are draining.  The setTimeout of retryJob and  *)
(* processNextJob() change no state (the setImmediate callback is empty)   *)
(* and are left out.                                                       *)
(***************************************************************************)
EXTENDS Integers, Sequences, FiniteSets, TLC

\* ---- bounds of the model ----
MaxJobs == 2        \* number of add() calls explored
MaxTime == 1        \* last value of the clock
MaxLoops == 3       \* worker loops alive at the same time

\* ---- configuration (constructor, lines 13-22), in units of retryDelay ----
Concurrency == 2
RetryDelay == 1
Timeout == 1
MaxRetriesChoices == {1}      \* config.maxRetries
Configs ==
  {[maxRetries |-> m, retryDelay |-> RetryDelay, concurrency |-> Concurrency,
    timeout |-> Timeout] : m \in MaxRetriesChoices}

\* ---- inputs ----
Types == {"a"}               \* job types given to add()
HandlerTypes == {"a"}        \* types a processor is ever registered for
Priorities == {0, 1}         \* options.priority
Delays == {0, 1}             \* options.delay
MaxRetriesOpts == {0}        \* options.maxRetries (0: given as 0, or not given;
                             \* `||` of line 63 treats both alike)
TimeoutOpts == {0}           \* options.timeout (0: given as 0, or not given)
CleanAges == {0, 1}          \* olderThan of clean()

Ids == 1..MaxJobs

VARIABLES
  config,        \* this.config
  jobs,          \* this.jobs: id -> job record, iterated in insertion (= id) order
  stats,         \* this.stats
  processors,    \* keys of this.processors
  isRunning,     \* this.isRunning
  loops,         \* the live processLoop closures, a bag of records: position (pc),
                 \* claimed job, worker.currentJob, deadline of the timeout timer
  now,           \* Date.now()
  nextId,        \* next job id (ids are unique; insertion order is id order)
  delayTimers,   \* ids whose add() delay timer is pending
  stopPc,        \* position of the caller of stop()
  stopPending,   \* history, while stop() waits: the jobs active at its call
                 \* that have not left active since
  invoked,       \* history: stored id -> number of handler invocations
  late           \* the handler invocations that lost the race against their
                 \* timeout and have not settled: <<job id, invocation number>>

vars == <<config, jobs, stats, processors, isRunning, loops, now, nextId,
          delayTimers, stopPc, stopPending, invoked, late>>

stopVars == <<stopPc, stopPending>>

\* the variables an attempt's outcome leaves alone
outcomeFrame == <<config, processors, isRunning, now, nextId, delayTimers, stopPc, late>>

EmptyFcn == [x \in {} |-> 0]

\* a loop that has ended
NoLoop == [pc |-> "none", job |-> 0, currentJob |-> 0, deadline |-> 0]

\* ---- bags of loops ----
BagAdd(B, e) ==
  IF e \in DOMAIN B THEN [B EXCEPT ![e] = @ + 1]
  ELSE [x \in DOMAIN B \cup {e} |-> IF x = e THEN 1 ELSE B[x]]

BagDel(B, e) ==
  IF B[e] > 1 THEN [B EXCEPT ![e] = @ - 1]
  ELSE [x \in DOMAIN B \ {e} |-> B[x]]

\* loop r of the bag becomes r2, or ends
BagPut(B, r, r2) == IF r2 = NoLoop THEN BagDel(B, r) ELSE BagAdd(BagDel(B, r), r2)

RECURSIVE BagCount(_, _)
BagCount(B, S) ==
  IF S = {} THEN 0
  ELSE LET e == CHOOSE x \in S : TRUE IN B[e] + BagCount(B, S \ {e})

LiveLoops(B) == BagCount(B, DOMAIN B)

\* ---- pure helpers ----
RECURSIVE Pow2(_)
Pow2(n) == IF n <= 0 THEN 1 ELSE 2 * Pow2(n - 1)

\* `x || d`
OrDefault(x, d) == IF x # 0 THEN x ELSE d

WithStatus(js, s) == {j \in DOMAIN js : js[j].status = s}

\* the ids of a set in ascending order
RECURSIVE SortedIds(_)
SortedIds(S) ==
  IF S = {} THEN <<>>
  ELSE LET m == CHOOSE x \in S : \A y \in S : x <= y
       IN <<m>> \o SortedIds(S \ {m})

\* ---- getJobs ----
\* mutant of Compare: priorities ascending
Compare_ascending(a, b) ==
  IF a.priority # b.priority THEN a.priority - b.priority
  ELSE a.createdAt - b.createdAt

\* the comparator of getJobs: negative when a goes before b
Compare(a, b) ==
  IF a.priority # b.priority THEN b.priority - a.priority
  ELSE a.createdAt - b.createdAt

\* `jobs.filter(job => job.status === status)`, or all jobs for a falsy status
\* ("null" is the default null); the array holds them in the order of
\* this.jobs.values(), the order of insertion, which is the order of the ids
FilterJobs(js, status) == IF status = "null" THEN DOMAIN js ELSE WithStatus(js, status)

\* mutant of GoesBefore: an unstable sort, equal entries come out reversed
GoesBefore_unstable(js, a, b) ==
  Compare(js[a], js[b]) < 0 \/ (Compare(js[a], js[b]) = 0 /\ a > b)

\* a ends up before b in the sorted array: Array.prototype.sort is stable,
\* entries that compare equal keep the order they had in the array
GoesBefore(js, a, b) ==
  Compare(js[a], js[b]) < 0 \/ (Compare(js[a], js[b]) = 0 /\ a < b)

\* `filtered.sort(comparator)`: the i-th entry has i - 1 entries before it
SortJobs(js, S) ==
  [i \in 1..Cardinality(S) |->
     CHOOSE j \in S : Cardinality({k \in S : GoesBefore(js, k, j)}) = i - 1]

\* `filtered.slice(0, limit)` for limit >= 0
SliceTo(seq, limit) == SubSeq(seq, 1, IF limit < Len(seq) THEN limit ELSE Len(seq))

\* the default of the parameter limit
DefaultLimit == 50

\* getJobs(status, limit): the ids of the listed jobs, in the order of the list
getJobs(js, status, limit) == SliceTo(SortJobs(js, FilterJobs(js, status)), limit)

\* mutant of NewJob: processAt forgets the delay
NewJob_noDelay(type, prio, delay, mr, to, t) ==
  [type |-> type,
   priority |-> OrDefault(prio, 0),
   delay |-> OrDefault(delay, 0),
   maxRetries |-> OrDefault(mr, config.maxRetries),
   timeout |-> OrDefault(to, config.timeout),
   status |-> "waiting",
   attempts |-> 0,
   createdAt |-> t,
   processAt |-> t,
   updatedAt |-> t,
   result |-> "null",
   error |-> "null",
   progress |-> 0]

\* the job object built by add()
NewJob(type, prio, delay, mr, to, t) ==
  [type |-> type,
   priority |-> OrDefault(prio, 0),
   delay |-> OrDefault(delay, 0),
   maxRetries |-> OrDefault(mr, config.maxRetries),
   timeout |-> OrDefault(to, config.timeout),
   status |-> "waiting",
   attempts |-> 0,
   createdAt |-> t,
   processAt |-> t + OrDefault(delay, 0),
   updatedAt |-> t,
   result |-> "null",
   error |-> "null",
   progress |-> 0]

\* mutants of IsReady: the scan forgets the status, or forgets processAt
IsReady_anyStatus(job, t) == job.processAt <= t
IsReady_anyTime(job, t) == job.status = "waiting"

\* the test of the scan of getNextJob
IsReady(job, t) == job.status = "waiting" /\ job.processAt <= t

\* mutant of Better: `>=`, the last of equal priorities wins
Better_orEqual(job, hasNext, highestPriority) ==
  ~hasNext \/ job.priority >= highestPriority

\* the comparison that replaces the candidate during the scan
\* mutant of Better: the scan keeps the first ready job, whatever the priorities
Better_fifo(job, hasNext, highestPriority) == ~hasNext

Better(job, hasNext, highestPriority) == ~hasNext \/ job.priority > highestPriority

\* the scan of getNextJob over this.jobs.values(); 0 is null
RECURSIVE ScanJobs(_, _, _, _)
ScanJobs(order, js, t, nextJob) ==
  IF order = <<>> THEN nextJob
  ELSE LET j == Head(order)
           take == IsReady(js[j], t)
                   /\ Better(js[j], nextJob # 0,
                             IF nextJob # 0 THEN js[nextJob].priority ELSE 0)
       IN ScanJobs(Tail(order), js, t, IF take THEN j ELSE nextJob)

getNextJob(js, t) == ScanJobs(SortedIds(DOMAIN js), js, t, 0)

\* mutant of ClaimJob: the claim forgets to mark the job active
ClaimJob_staysWaiting(js, id, t) == [js EXCEPT ![id].updatedAt = t]

\* the claim of getNextJob
ClaimJob(js, id, t) == [js EXCEPT ![id].status = "active", ![id].updatedAt = t]
ClaimStats(st) == [st EXCEPT !.waitingJobs = @ - 1, !.activeJobs = @ + 1]

\* mutant of completeJob: the successful execution is counted in attempts
completeJob_countsAttempt(js, id, result, t) ==
  [js EXCEPT ![id].status = "completed", ![id].result = result,
             ![id].updatedAt = t, ![id].progress = 100, ![id].attempts = @ + 1]

completeJob(js, id, result, t) ==
  [js EXCEPT ![id].status = "completed", ![id].result = result,
             ![id].updatedAt = t, ![id].progress = 100]
CompleteStats(st) == [st EXCEPT !.activeJobs = @ - 1, !.completedJobs = @ + 1]

failJob(js, id, err, t) ==
  [js EXCEPT ![id].status = "failed", ![id].error = err, ![id].updatedAt = t]
FailStats(st) == [st EXCEPT !.activeJobs = @ - 1, !.failedJobs = @ + 1]

\* mutant of Backoff: linear instead of exponential
Backoff_linear(attempts) == config.retryDelay * attempts

Backoff(attempts) == config.retryDelay * Pow2(attempts - 1)

retryJob(js, id, err, t) ==
  [js EXCEPT ![id].attempts = @ + 1,
             ![id].status = "waiting",
             ![id].processAt = t + Backoff(js[id].attempts + 1),
             ![id].updatedAt = t,
             ![id].error = err]
RetryStats(st) == [st EXCEPT !.activeJobs = @ - 1, !.waitingJobs = @ + 1]

\* mutants of CanRetry: one retry too many, or no ceiling at all
CanRetry_orEqual(job) == job.attempts <= job.maxRetries
CanRetry_always(job) == TRUE

\* the test of the catch block of executeJob
CanRetry(job) == job.attempts < job.maxRetries

\* mutant of updateStats: the delayed counter is left as stored
updateStats_staleDelayed(st, js, t) ==
  [st EXCEPT !.activeJobs = Cardinality(WithStatus(js, "active")),
             !.waitingJobs = Cardinality(WithStatus(js, "waiting")),
             !.completedJobs = Cardinality(WithStatus(js, "completed")),
             !.failedJobs = Cardinality(WithStatus(js, "failed"))]

updateStats(st, js, t) ==
  [st EXCEPT !.activeJobs = Cardinality(WithStatus(js, "active")),
             !.waitingJobs = Cardinality(WithStatus(js, "waiting")),
             !.delayedJobs = Cardinality({j \in DOMAIN js :
                                js[j].status = "waiting" /\ js[j].processAt > t}),
             !.completedJobs = Cardinality(WithStatus(js, "completed")),
             !.failedJobs = Cardinality(WithStatus(js, "failed"))]

\* mutant of Removable: remove() takes any job
Removable_any(job) == TRUE

\* remove() refuses an active job
Removable(job) == job.status # "active"

\* remove(jobId): the returned value and the store it leaves
removeJob(js, id) ==
  IF id \notin DOMAIN js THEN [ret |-> FALSE, jobs |-> js]
  ELSE IF ~Removable(js[id]) THEN [ret |-> FALSE, jobs |-> js]
  ELSE [ret |-> TRUE, jobs |-> [x \in DOMAIN js \ {id} |-> js[x]]]

\* mutant of Cleanable: clean() forgets the age of the job
Cleanable_anyAge(job, cutoff) == job.status \in {"completed", "failed"}

\* the test of clean()
Cleanable(job, cutoff) ==
  job.status \in {"completed", "failed"} /\ job.updatedAt < cutoff

Without(f, S) == [x \in DOMAIN f \ S |-> f[x]]
With(f, k, v) == [x \in DOMAIN f \cup {k} |-> IF x = k THEN v ELSE f[x]]

\* mutant of cleanJobs: the loop stops after the first job it deletes
cleanJobs_firstOnly(js, t, olderThan) ==
  LET dead == {j \in DOMAIN js : Cleanable(js[j], t - olderThan)}
      first == {j \in dead : \A k \in dead : j <= k}
  IN [ret |-> Cardinality(first), jobs |-> Without(js, first)]

\* clean(olderThan) at time t: the returned count and the store it leaves
cleanJobs(js, t, olderThan) ==
  LET dead == {j \in DOMAIN js : Cleanable(js[j], t - olderThan)}
  IN [ret |-> Cardinality(dead), jobs |-> Without(js, dead)]

\* a microtask of a worker loop is pending
MicroPending ==
  \/ \E r \in DOMAIN loops : r.pc \in {"got", "post", "caughtRetry", "caughtFail"}
  \/ stopPc = "shutReturned"

\* mutant of LoopHead: the loop does not test isRunning
LoopHead_ignoresStop(js, st, running) ==
  LET nj == getNextJob(js, now)
  IN IF nj # 0
     THEN [jobs |-> ClaimJob(js, nj, now),
           stats |-> ClaimStats(st),
           loop |-> [pc |-> "got", job |-> nj, currentJob |-> 0, deadline |-> 0]]
     ELSE [jobs |-> js, stats |-> st,
           loop |-> [pc |-> "sleep", job |-> 0, currentJob |-> 0, deadline |-> 0]]

\* ---- the head of the worker loop ----
\* `while (this.isRunning) { const job = await this.getNextJob(); ...`
\* run on the state (js, st); the loop ends (NoLoop) when the pool is stopped
LoopHead(js, st, running) ==
  IF ~running
  THEN [jobs |-> js, stats |-> st, loop |-> NoLoop]
  ELSE LET nj == getNextJob(js, now)
       IN IF nj # 0
          THEN [jobs |-> ClaimJob(js, nj, now),
                stats |-> ClaimStats(st),
                loop |-> [pc |-> "got", job |-> nj, currentJob |-> 0, deadline |-> 0]]
          ELSE [jobs |-> js, stats |-> st,
                loop |-> [pc |-> "sleep", job |-> 0, currentJob |-> 0, deadline |-> 0]]

\* start(): startWorker(i) for i < concurrency, each running its loop head at once
RECURSIVE StartWorkers(_, _, _, _)
StartWorkers(n, js, st, lp) ==
  IF n <= 0 THEN [jobs |-> js, stats |-> st, loops |-> lp]
  ELSE LET r == LoopHead(js, st, TRUE)
       IN StartWorkers(n - 1, r.jobs, r.stats, BagAdd(lp, r.loop))

\* start() can be modelled: the pool runs already, or there is room for N new loops
CanStart == isRunning \/ LiveLoops(loops) + config.concurrency <= MaxLoops

\* mutant of StartIfStopped: the pool is never started
StartIfStopped_never(js, st) == [jobs |-> js, stats |-> st, loops |-> loops]

\* mutant of StartIfStopped: start() forgets the test of isRunning
StartIfStopped_always(js, st) == StartWorkers(config.concurrency, js, st, loops)

\* the state after `if (!this.isRunning) this.start()` on (js, st)
StartIfStopped(js, st) ==
  IF isRunning THEN [jobs |-> js, stats |-> st, loops |-> loops]
  ELSE StartWorkers(config.concurrency, js, st, loops)

\* the state after `new JobQueue(cfg)`
InitWith(cfgs) ==
  /\ config \in cfgs
  /\ jobs = EmptyFcn
  /\ stats = [totalJobs |-> 0, completedJobs |-> 0, failedJobs |-> 0,
              activeJobs |-> 0, waitingJobs |-> 0, delayedJobs |-> 0]
  /\ processors = {}
  /\ isRunning = FALSE
  /\ loops = EmptyFcn
  /\ now = 0
  /\ nextId = 1
  /\ delayTimers = {}
  /\ stopPc = "idle"
  /\ stopPending = {}
  /\ invoked = EmptyFcn
  /\ late = {}

Init == InitWith(Configs)

\* ---- public API ----
\* add(); cap bounds the number of add() calls
AddJob(cap, type, prio, delay, mr, to) ==
  /\ nextId <= cap
  /\ CanStart
  /\ LET job == NewJob(type, prio, delay, mr, to, now)
         js == With(jobs, nextId, job)
         st == [stats EXCEPT !.totalJobs = @ + 1, !.waitingJobs = @ + 1,
                             !.delayedJobs = IF job.delay > 0 THEN @ + 1 ELSE @]
         r == StartIfStopped(js, st)
     IN /\ jobs' = r.jobs
        /\ stats' = r.stats
        /\ loops' = r.loops
        /\ delayTimers' = IF job.delay > 0 THEN delayTimers \cup {nextId}
                          ELSE delayTimers
  /\ isRunning' = TRUE
  /\ nextId' = nextId + 1
  /\ invoked' = With(invoked, nextId, 0)
  /\ UNCHANGED <<late, config, processors, now, stopVars>>

Process(type) ==
  /\ type \notin processors
  /\ CanStart
  /\ processors' = processors \cup {type}
  /\ LET r == StartIfStopped(jobs, stats)
     IN /\ jobs' = r.jobs
        /\ stats' = r.stats
        /\ loops' = r.loops
  /\ isRunning' = TRUE
  /\ UNCHANGED <<late, config, now, nextId, delayTimers, stopVars, invoked>>

\* start(): returns at once when the pool runs already (line 119)
Start ==
  /\ CanStart
  /\ LET r == StartIfStopped(jobs, stats)
     IN /\ jobs' = r.jobs
        /\ stats' = r.stats
        /\ loops' = r.loops
  /\ isRunning' = TRUE
  /\ UNCHANGED <<late, config, processors, now, nextId, delayTimers, stopVars, invoked>>

\* stop(): isRunning = false; returns at once when no job is active
Stop ==
  /\ stopPc = "idle"
  /\ isRunning' = FALSE
  /\ stopPending' = WithStatus(jobs, "active")
  /\ stopPc' = IF stopPending' = {} THEN "idle" ELSE "polling"
  /\ UNCHANGED <<late, config, jobs, stats, processors, loops, now, nextId, delayTimers, invoked>>

\* mutant of StopPoll: stop() returns at the first poll, whatever is active
StopPoll_firstPoll ==
  /\ stopPc = "polling"
  /\ ~MicroPending
  /\ stopPc' = "idle"
  /\ UNCHANGED <<late, config, jobs, stats, processors, isRunning, loops, now, nextId,
                 delayTimers, stopPending, invoked>>

\* the setInterval callback of stop() that finds no active job: stop() returns
StopPoll ==
  /\ stopPc = "polling"
  /\ ~MicroPending
  /\ WithStatus(jobs, "active") = {}
  /\ stopPc' = "idle"
  /\ UNCHANGED <<late, config, jobs, stats, processors, isRunning, loops, now, nextId,
                 delayTimers, stopPending, invoked>>

Remove(id) ==
  /\ LET r == removeJob(jobs, id)
     IN /\ jobs' = r.jobs
        /\ stats' = IF r.ret THEN updateStats(stats, r.jobs, now) ELSE stats
  /\ invoked' = [j \in DOMAIN jobs' |-> invoked[j]]
  /\ UNCHANGED <<late, config, processors, isRunning, loops, now, nextId, delayTimers, stopVars>>

\* clean(): updateStats() only when something was removed (line 235)
Clean(olderThan) ==
  /\ UNCHANGED <<late, config, processors, isRunning, loops, now, nextId, delayTimers, stopVars>>
  /\ LET r == cleanJobs(jobs, now, olderThan)
     IN /\ jobs' = r.jobs
        /\ stats' = IF r.ret > 0 THEN updateStats(stats, r.jobs, now) ELSE stats
  /\ invoked' = [j \in DOMAIN jobs' |-> invoked[j]]

\* the counters of the object getStats() returns: this.stats after updateStats()
getStats(st, js, t) == updateStats(st, js, t)

GetStats ==
  /\ stats' = getStats(stats, jobs, now)
  /\ stats' # stats
  /\ UNCHANGED <<late, config, jobs, processors, isRunning, loops, now, nextId, delayTimers,
                 stopVars, invoked>>

\* ---- timers ----
\* the clock advances; cap is its last value
TickTo(cap) ==
  /\ now < cap
  /\ ~MicroPending
  /\ now' = now + 1
  /\ UNCHANGED <<late, config, jobs, stats, processors, isRunning, loops, nextId, delayTimers,
                 stopVars, invoked>>

\* mutant of DelayTimer: the callback does not look the job up in the store
DelayTimer_unchecked(id) ==
  /\ id \in delayTimers
  /\ ~MicroPending
  /\ (id \in DOMAIN jobs => now >= jobs[id].createdAt + jobs[id].delay)
  /\ delayTimers' = delayTimers \ {id}
  /\ stats' = [stats EXCEPT !.delayedJobs = @ - 1]
  /\ UNCHANGED <<late, config, jobs, processors, isRunning, loops, now, nextId, stopVars, invoked>>

\* the setTimeout callback of add() for a delayed job
DelayTimer(id) ==
  /\ id \in delayTimers
  /\ ~MicroPending
  /\ (id \in DOMAIN jobs => now >= jobs[id].createdAt + jobs[id].delay)
  /\ delayTimers' = delayTimers \ {id}
  /\ stats' = IF id \in DOMAIN jobs /\ jobs[id].status = "waiting"
              THEN [stats EXCEPT !.delayedJobs = @ - 1] ELSE stats
  /\ UNCHANGED <<late, config, jobs, processors, isRunning, loops, now, nextId, stopVars, invoked>>

\* ---- worker loop ----
\* `await this.sleep(1000)` is over: back to the head of the loop
SleepWake(r) ==
  /\ r.pc = "sleep"
  /\ ~MicroPending
  /\ LET h == LoopHead(jobs, stats, isRunning)
     IN /\ jobs' = h.jobs
        /\ stats' = h.stats
        /\ loops' = BagPut(loops, r, h.loop)
  /\ UNCHANGED <<late, config, processors, isRunning, now, nextId, delayTimers, stopVars, invoked>>

\* the race is settled: the loop waits for executeJob to return
Settled(r) == [r EXCEPT !.pc = "post", !.deadline = 0]

\* the catch block of executeJob
Catch(r, err) ==
  /\ LET id == r.job
     IN /\ IF CanRetry(jobs[id])
           THEN /\ jobs' = retryJob(jobs, id, err, now)
                /\ stats' = RetryStats(stats)
           ELSE /\ jobs' = failJob(jobs, id, err, now)
                /\ stats' = FailStats(stats)
        /\ stopPending' = stopPending \ {id}
  /\ loops' = BagPut(loops, r, Settled(r))
  /\ UNCHANGED <<outcomeFrame, invoked>>

\* mutant of WorkerBegin: a missing processor is handled like a handler error
WorkerBegin_retries(r) ==
  /\ r.pc = "got"
  /\ IF jobs[r.job].type \notin processors
     THEN /\ IF CanRetry(jobs[r.job])
             THEN /\ jobs' = retryJob(jobs, r.job, "noprocessor", now)
                  /\ stats' = RetryStats(stats)
             ELSE /\ jobs' = failJob(jobs, r.job, "noprocessor", now)
                  /\ stats' = FailStats(stats)
          /\ stopPending' = stopPending \ {r.job}
          /\ loops' = BagPut(loops, r, [r EXCEPT !.pc = "post", !.currentJob = r.job])
          /\ UNCHANGED invoked
     ELSE /\ invoked' = [invoked EXCEPT ![r.job] = @ + 1]
          /\ loops' = BagPut(loops, r, [r EXCEPT !.pc = "running", !.currentJob = r.job,
                                        !.deadline = now + jobs[r.job].timeout])
          /\ UNCHANGED <<jobs, stats, stopPending>>
  /\ UNCHANGED outcomeFrame

\* after `await this.getNextJob()`: worker.currentJob = job.id and executeJob
\* up to its first await (no processor: failJob; else the handler is called)
WorkerBegin(r) ==
  /\ r.pc = "got"
  /\ LET id == r.job
     IN IF jobs[id].type \notin processors
        THEN /\ jobs' = failJob(jobs, id, "noprocessor", now)
             /\ stats' = FailStats(stats)
             /\ loops' = BagPut(loops, r, [r EXCEPT !.pc = "post", !.currentJob = id])
             /\ stopPending' = stopPending \ {id}
             /\ UNCHANGED invoked
        ELSE /\ invoked' = [invoked EXCEPT ![id] = @ + 1]
             /\ loops' = BagPut(loops, r, [r EXCEPT !.pc = "running", !.currentJob = id,
                                           !.deadline = now + jobs[id].timeout])
             /\ UNCHANGED <<jobs, stats, stopPending>>
  /\ UNCHANGED outcomeFrame

\* the handler resolved first: completeJob
HandlerResolve(r) ==
  /\ r.pc = "running"
  /\ LET id == r.job
     IN /\ jobs' = completeJob(jobs, id, "ok", now)
        /\ stats' = CompleteStats(stats)
        /\ stopPending' = stopPending \ {id}
  /\ loops' = BagPut(loops, r, Settled(r))
  /\ UNCHANGED <<outcomeFrame, invoked>>

\* the handler threw or rejected first
HandlerReject(r) ==
  /\ r.pc = "running"
  /\ Catch(r, "handler")

\* mutant of TimeoutFire: a timeout fails the job at once, without the retry rule
TimeoutFire_noRetry(r) ==
  /\ r.pc = "running"
  /\ ~MicroPending
  /\ now >= r.deadline
  /\ jobs' = failJob(jobs, r.job, "timeout", now)
  /\ stats' = FailStats(stats)
  /\ stopPending' = stopPending \ {r.job}
  /\ loops' = BagPut(loops, r, Settled(r))
  /\ UNCHANGED <<outcomeFrame, invoked>>

\* the timer of createTimeout(job.timeout) fired first
TimeoutFire(r) ==
  /\ r.pc = "running"
  /\ ~MicroPending
  /\ now >= r.deadline
  /\ Catch(r, "timeout")

\* after `await this.executeJob()`: currentJob = null, then the head of the loop
WorkerPost(r) ==
  /\ r.pc = "post"
  /\ LET h == LoopHead(jobs, stats, isRunning)
     IN /\ jobs' = h.jobs
        /\ stats' = h.stats
        /\ loops' = BagPut(loops, r, h.loop)
  /\ UNCHANGED <<late, config, processors, isRunning, now, nextId, delayTimers, stopVars, invoked>>

\* the steps of a queue whose callers pass the given types and priorities
NextOf(types, prios, maxJobs, maxTime) ==
  \/ \E type \in types, prio \in prios, delay \in Delays,
        mr \in MaxRetriesOpts, to \in TimeoutOpts : AddJob(maxJobs, type, prio, delay, mr, to)
  \/ \E type \in HandlerTypes : Process(type)
  \/ Start
  \/ Stop
  \/ StopPoll
  \/ \E id \in Ids : Remove(id)
  \/ \E d \in CleanAges : Clean(d)
  \/ GetStats
  \/ TickTo(maxTime)
  \/ \E id \in Ids : DelayTimer(id)
  \/ \E r \in DOMAIN loops : SleepWake(r)
  \/ \E r \in DOMAIN loops : WorkerBegin(r)
  \/ \E r \in DOMAIN loops : HandlerResolve(r)
  \/ \E r \in DOMAIN loops : HandlerReject(r)
  \/ \E r \in DOMAIN loops : TimeoutFire(r)
  \/ \E r \in DOMAIN loops : WorkerPost(r)

NextWith(maxJobs, maxTime) == NextOf(Types, Priorities, maxJobs, maxTime)

Next == NextWith(MaxJobs, MaxTime)

Spec == Init /\ [][Next]_vars

\* ---- retry chains: one job, the default maxRetries, a longer clock ----
RetryMaxJobs == 1
RetryMaxTime == 3
RetryMaxRetries == 3
RetryConfigs ==
  {[maxRetries |-> RetryMaxRetries, retryDelay |-> RetryDelay,
    concurrency |-> Concurrency, timeout |-> Timeout]}

InitRetry == InitWith(RetryConfigs)
NextRetry == NextWith(RetryMaxJobs, RetryMaxTime)
SpecRetry == InitRetry /\ [][NextRetry]_vars

\* ---- a single worker, jobs of priority 5 and 10 ----
PrioMaxJobs == 2
PrioMaxTime == 1
SingleWorker == 1
ScenarioPriorities == {5, 10}
PrioConfigs ==
  {[maxRetries |-> m, retryDelay |-> RetryDelay, concurrency |-> SingleWorker,
    timeout |-> Timeout] : m \in MaxRetriesChoices}
InitPrio == InitWith(PrioConfigs)
NextPrio == NextOf(Types, ScenarioPriorities, PrioMaxJobs, PrioMaxTime)
SpecPrio == InitPrio /\ [][NextPrio]_vars

\* ---- a handler that always succeeds, registered before the first add() ----
\* the state after `new JobQueue(cfg)` and `process("a", handler)`: the pool runs,
\* its workers found no job and sleep.  The callers only add undelayed jobs;
\* every invocation of the handler resolves before its timeout.
LiveMaxJobs == 3
LiveMaxTime == 1
InitLive ==
  /\ config \in Configs
  /\ jobs = EmptyFcn
  /\ stats = [totalJobs |-> 0, completedJobs |-> 0, failedJobs |-> 0,
              activeJobs |-> 0, waitingJobs |-> 0, delayedJobs |-> 0]
  /\ processors = {"a"}
  /\ isRunning = TRUE
  /\ loops = StartWorkers(config.concurrency, jobs, stats, EmptyFcn).loops
  /\ now = 0
  /\ nextId = 1
  /\ delayTimers = {}
  /\ stopPc = "idle"
  /\ stopPending = {}
  /\ invoked = EmptyFcn
  /\ late = {}

NextLive ==
  \/ \E prio \in Priorities : AddJob(LiveMaxJobs, "a", prio, 0, 0, 0)
  \/ TickTo(LiveMaxTime)
  \/ \E r \in DOMAIN loops : SleepWake(r)
  \/ \E r \in DOMAIN loops : WorkerBegin(r)
  \/ \E r \in DOMAIN loops : HandlerResolve(r)
  \/ \E r \in DOMAIN loops : WorkerPost(r)

\* the event loop runs every pending microtask and fires every sleep timer, and
\* the handler settles every invocation
LiveFairness ==
  /\ WF_vars(\E r \in DOMAIN loops : SleepWake(r))
  /\ WF_vars(\E r \in DOMAIN loops : WorkerBegin(r))
  /\ WF_vars(\E r \in DOMAIN loops : HandlerResolve(r))
  /\ WF_vars(\E r \in DOMAIN loops : WorkerPost(r))

SpecLive == InitLive /\ [][NextLive]_vars /\ LiveFairness

\* ---- a subscriber of job:completed that throws ----
\* emit() runs the listeners synchronously: the exception leaves completeJob
\* after its assignments (384-392) and rejects its promise; the catch block of
\* executeJob runs in the next microtask.  Its test attempts < maxRetries reads
\* the job object, which nothing changes in between, also when remove() takes
\* it out of the store: the pc records the outcome of the test
CompletedListenerThrows(r) ==
  /\ r.pc = "running"
  /\ LET id == r.job
     IN /\ jobs' = completeJob(jobs, id, "ok", now)
        /\ stats' = CompleteStats(stats)
        /\ stopPending' = stopPending \ {id}
  /\ loops' = BagPut(loops, r,
                [r EXCEPT !.pc = IF CanRetry(jobs[r.job]) THEN "caughtRetry" ELSE "caughtFail",
                          !.deadline = 0])
  /\ UNCHANGED <<outcomeFrame, invoked>>

\* the catch block of executeJob, entered with the listener's exception
\* (a job removed meanwhile is changed outside the store; the counters follow)
CatchListener(r) ==
  /\ r.pc \in {"caughtRetry", "caughtFail"}
  /\ IF r.job \in DOMAIN jobs
     THEN Catch(r, "listener")
     ELSE /\ stats' = IF r.pc = "caughtRetry" THEN RetryStats(stats) ELSE FailStats(stats)
          /\ loops' = BagPut(loops, r, Settled(r))
          /\ UNCHANGED <<outcomeFrame, jobs, stopPending, invoked>>

\* a subscriber of job:started that throws: emit() (l.336) runs after the claim
\* (329-334), getNextJob rejects, and the catch of the worker loop (299-304)
\* sleeps 5000 ms.  The job is active and no worker runs it.  The loop was at
\* its head after a sleep (a timer) or after a job (a microtask)
StartedListenerThrows(r) ==
  /\ r.pc \in {"sleep", "post"}
  /\ r.pc = "sleep" => ~MicroPending
  /\ isRunning
  /\ getNextJob(jobs, now) # 0
  /\ jobs' = ClaimJob(jobs, getNextJob(jobs, now), now)
  /\ stats' = ClaimStats(stats)
  /\ loops' = BagPut(loops, r, [pc |-> "sleep", job |-> 0, currentJob |-> 0, deadline |-> 0])
  /\ UNCHANGED <<outcomeFrame, stopPending, invoked>>

ListenMaxJobs == 1
ListenMaxTime == 2
NextListen ==
  \/ NextWith(ListenMaxJobs, ListenMaxTime)
  \/ \E r \in DOMAIN loops : CompletedListenerThrows(r)
  \/ \E r \in DOMAIN loops : CatchListener(r)
  \/ \E r \in DOMAIN loops : StartedListenerThrows(r)
SpecListen == Init /\ [][NextListen]_vars

\* ---- callers that may pass an empty job type: one job, a short clock ----
AddMaxJobs == 1
AddMaxTime == 2
AnyTypes == {"a", ""}
NextAdd == NextOf(AnyTypes, Priorities, AddMaxJobs, AddMaxTime)
SpecAdd == Init /\ [][NextAdd]_vars

\* ---- a handler that throws a value that is not an Error ----
\* `throw null`, `throw undefined`, `Promise.reject()`: in the catch block of
\* executeJob the template of l.372 reads error.message and throws a TypeError
\* before retryJob or failJob is reached.  executeJob rejects, the catch of the
\* worker loop (299-304) clears worker.currentJob and sleeps 5000 ms; the job
\* keeps the status active and no counter changes
HandlerRejectsNullish(r) ==
  /\ r.pc = "running"
  /\ loops' = BagPut(loops, r, [pc |-> "sleep", job |-> 0, currentJob |-> 0, deadline |-> 0])
  /\ UNCHANGED <<outcomeFrame, jobs, stats, stopPending, invoked>>

\* `throw "text"`, `throw {}`: error.message is undefined, the retry rule runs
\* and stores undefined in job.error
HandlerRejectsPlain(r) ==
  /\ r.pc = "running"
  /\ Catch(r, "undefined")

\* the clock reaches the deadline of a pending createTimeout timer
DeadlineTick ==
  /\ \E r \in DOMAIN loops : r.pc = "running" /\ now < r.deadline
  /\ ~MicroPending
  /\ now' = now + 1
  /\ UNCHANGED <<late, config, jobs, stats, processors, isRunning, loops, nextId, delayTimers,
                 stopVars, invoked>>

\* one job, a short clock for the callers
StopMaxJobs == 1
StopMaxTime == 1
NextStop ==
  \/ NextWith(StopMaxJobs, StopMaxTime)
  \/ DeadlineTick

\* the event loop runs every pending microtask, time passes while a timeout
\* timer is pending, and the timers of createTimeout, sleep and the poll of
\* stop() fire when they are due; nothing is assumed of the handlers
StopFairness ==
  /\ WF_vars(\E r \in DOMAIN loops : WorkerBegin(r))
  /\ WF_vars(\E r \in DOMAIN loops : WorkerPost(r))
  /\ WF_vars(DeadlineTick)
  /\ WF_vars(\E r \in DOMAIN loops : TimeoutFire(r))
  /\ WF_vars(\E r \in DOMAIN loops : SleepWake(r))
  /\ WF_vars(StopPoll)

\* handlers that throw Errors only
SpecStop == Init /\ [][NextStop]_vars /\ StopFairness

\* handlers that throw anything
NextThrow ==
  \/ NextStop
  \/ \E r \in DOMAIN loops : HandlerRejectsNullish(r)
  \/ \E r \in DOMAIN loops : HandlerRejectsPlain(r)
SpecThrow == Init /\ [][NextThrow]_vars /\ StopFairness

\* ---- shutdown() ----
\* shutdown() runs stop() up to its first await: isRunning = false, and the
\* poll is set up when a job is active.  The caller of shutdown() takes the
\* place of the caller of stop() (stopPc, stopPending)
Shutdown ==
  /\ stopPc = "idle"
  /\ isRunning' = FALSE
  /\ stopPending' = WithStatus(jobs, "active")
  /\ stopPc' = IF stopPending' = {} THEN "shutReturned" ELSE "shutPolling"
  /\ UNCHANGED <<late, config, jobs, stats, processors, loops, now, nextId, delayTimers, invoked>>

\* the poll of stop() finds no active job: stop() returns, and with nothing
\* else in the microtask queue shutdown() goes on to clearInterval(cleanupTimer)
\* and process.exit(0)
ShutdownPoll ==
  /\ stopPc = "shutPolling"
  /\ ~MicroPending
  /\ WithStatus(jobs, "active") = {}
  /\ stopPc' = "exited"
  /\ UNCHANGED <<late, config, jobs, stats, processors, isRunning, loops, now, nextId,
                 delayTimers, stopPending, invoked>>

\* stop() had nothing to wait for: the continuation of `await this.stop()`
\* runs as a microtask, after the synchronous code of the caller and the
\* microtasks queued before it: clearInterval(cleanupTimer), process.exit(0)
ShutdownExit ==
  /\ stopPc = "shutReturned"
  /\ stopPc' = "exited"
  /\ UNCHANGED <<late, config, jobs, stats, processors, isRunning, loops, now, nextId,
                 delayTimers, stopPending, invoked>>

\* one job, a short clock
ShutMaxJobs == 1
ShutMaxTime == 1

\* process.exit(0) has not run: the event loop is alive
Alive == stopPc # "exited"

\* the steps of a queue whose owner may call shutdown(); after the exit no
\* call, timer or microtask runs
NextShut ==
  \/ Alive /\ \E type \in Types, prio \in Priorities, delay \in Delays,
                 mr \in MaxRetriesOpts, to \in TimeoutOpts :
                 AddJob(ShutMaxJobs, type, prio, delay, mr, to)
  \/ Alive /\ \E type \in HandlerTypes : Process(type)
  \/ Alive /\ Start
  \/ Alive /\ Stop
  \/ Alive /\ StopPoll
  \/ Alive /\ \E id \in Ids : Remove(id)
  \/ Alive /\ \E d \in CleanAges : Clean(d)
  \/ Alive /\ GetStats
  \/ Alive /\ TickTo(ShutMaxTime)
  \/ Alive /\ \E id \in Ids : DelayTimer(id)
  \/ Alive /\ \E r \in DOMAIN loops : SleepWake(r)
  \/ Alive /\ \E r \in DOMAIN loops : WorkerBegin(r)
  \/ Alive /\ \E r \in DOMAIN loops : HandlerResolve(r)
  \/ Alive /\ \E r \in DOMAIN loops : HandlerReject(r)
  \/ Alive /\ \E r \in DOMAIN loops : TimeoutFire(r)
  \/ Alive /\ \E r \in DOMAIN loops : WorkerPost(r)
  \/ Shutdown
  \/ ShutdownPoll
  \/ ShutdownExit
SpecShut == Init /\ [][NextShut]_vars

\* ---- a producer with a backlog: more waiting jobs than one listing holds ----
\* In one synchronous run the producer adds a first job of any kind, then
\* BacklogSize delayed jobs of the highest priority, then jobs of any kind.
\* No timer fires and no microtask runs in between; the claims are those of the
\* auto-start of add()
BacklogSize == DefaultLimit
ListFreeJobs == 3
ListMaxJobs == BacklogSize + ListFreeJobs
NextList ==
  \/ \E prio \in Priorities, delay \in Delays :
       /\ nextId = 1 \/ nextId > BacklogSize + 1
       /\ AddJob(ListMaxJobs, "a", prio, delay, 0, 0)
  \/ /\ nextId \in 2..(BacklogSize + 1)
     /\ AddJob(ListMaxJobs, "a", 1, 1, 0, 0)
SpecList == Init /\ [][NextList]_vars

\* ---- handlers that report progress and handlers that outlive their timeout ----
\* mutant of Clamp: the lower bound is forgotten
Clamp_noFloor(percent) == IF percent > 100 THEN 100 ELSE percent

\* Math.max(0, Math.min(100, percent)) for a number
Clamp(percent) ==
  LET m == IF percent < 100 THEN percent ELSE 100
  IN IF m > 0 THEN m ELSE 0

updateJobProgress(js, id, percent, t) ==
  [js EXCEPT ![id].progress = Clamp(percent), ![id].updatedAt = t]

\* what handlers pass to progress()
ProgressArgs == {-1, 50, 101}

\* the handler of a running attempt calls progress(percent)
Progress(r, percent) ==
  /\ r.pc = "running"
  /\ jobs' = updateJobProgress(jobs, r.job, percent, now)
  /\ UNCHANGED <<late, config, stats, processors, isRunning, loops, now, nextId,
                 delayTimers, stopVars, invoked>>

\* the timer of createTimeout fired first: the catch block runs as in
\* TimeoutFire.  The promise of the handler is still pending; Promise.race
\* has settled and keeps no reaction that would act on it
TimeoutFireLate(r) ==
  /\ r.pc = "running"
  /\ ~MicroPending
  /\ now >= r.deadline
  /\ LET id == r.job
     IN /\ IF CanRetry(jobs[id])
           THEN /\ jobs' = retryJob(jobs, id, "timeout", now)
                /\ stats' = RetryStats(stats)
           ELSE /\ jobs' = failJob(jobs, id, "timeout", now)
                /\ stats' = FailStats(stats)
        /\ stopPending' = stopPending \ {id}
        /\ late' = late \cup {<<id, invoked[id]>>}
  /\ loops' = BagPut(loops, r, Settled(r))
  /\ UNCHANGED <<config, processors, isRunning, now, nextId, delayTimers, stopPc, invoked>>

\* mutant of LateSettle: the late result completes the job
LateSettle_completes(z) ==
  /\ z \in late
  /\ late' = late \ {z}
  /\ IF z[1] \in DOMAIN jobs
     THEN jobs' = completeJob(jobs, z[1], "ok", now) /\ stats' = CompleteStats(stats)
     ELSE UNCHANGED <<jobs, stats>>
  /\ UNCHANGED <<config, processors, isRunning, loops, now, nextId,
                 delayTimers, stopVars, invoked>>

\* the handler of an attempt that timed out returns or throws at last: the
\* race of l.365-368 was decided, neither completeJob nor the catch block runs
LateSettle(z) ==
  /\ z \in late
  /\ late' = late \ {z}
  /\ UNCHANGED <<config, jobs, stats, processors, isRunning, loops, now, nextId,
                 delayTimers, stopVars, invoked>>

\* such a handler still holds its jobContext and may call progress()
LateProgress(z, percent) ==
  /\ z \in late
  /\ z[1] \in DOMAIN jobs
  /\ jobs' = updateJobProgress(jobs, z[1], percent, now)
  /\ UNCHANGED <<late, config, stats, processors, isRunning, loops, now, nextId,
                 delayTimers, stopVars, invoked>>

\* the steps of a queue whose handlers report progress and may outlive their
\* timeout
NextLateOf(maxJobs, maxTime) ==
  \/ \E type \in Types, prio \in Priorities, delay \in Delays,
        mr \in MaxRetriesOpts, to \in TimeoutOpts : AddJob(maxJobs, type, prio, delay, mr, to)
  \/ \E type \in HandlerTypes : Process(type)
  \/ Start
  \/ Stop
  \/ StopPoll
  \/ \E id \in Ids : Remove(id)
  \/ \E d \in CleanAges : Clean(d)
  \/ GetStats
  \/ TickTo(maxTime)
  \/ \E id \in Ids : DelayTimer(id)
  \/ \E r \in DOMAIN loops : SleepWake(r)
  \/ \E r \in DOMAIN loops : WorkerBegin(r)
  \/ \E r \in DOMAIN loops : HandlerResolve(r)
  \/ \E r \in DOMAIN loops : HandlerReject(r)
  \/ \E r \in DOMAIN loops : WorkerPost(r)
  \/ \E r \in DOMAIN loops, p \in ProgressArgs : Progress(r, p)
  \/ \E r \in DOMAIN loops : TimeoutFireLate(r)
  \/ \E z \in late : LateSettle(z)
  \/ \E z \in late, p \in ProgressArgs : LateProgress(z, p)

\* one job, a clock long enough for a retry after a timeout
LateMaxJobs == 1
LateMaxTime == 2
NextLate == NextLateOf(LateMaxJobs, LateMaxTime)
SpecLate == Init /\ [][NextLate]_vars

\* two jobs, a short clock; the callers add undelayed jobs, so no delay timer
\* is ever set
ProgressMaxJobs == 2
ProgressMaxTime == 1
NextProgress ==
  \/ \E prio \in Priorities : AddJob(ProgressMaxJobs, "a", prio, 0, 0, 0)
  \/ \E type \in HandlerTypes : Process(type)
  \/ Start
  \/ Stop
  \/ StopPoll
  \/ \E id \in Ids : Remove(id)
  \/ \E d \in CleanAges : Clean(d)
  \/ GetStats
  \/ TickTo(ProgressMaxTime)
  \/ \E r \in DOMAIN loops : SleepWake(r)
  \/ \E r \in DOMAIN loops : WorkerBegin(r)
  \/ \E r \in DOMAIN loops : HandlerResolve(r)
  \/ \E r \in DOMAIN loops : HandlerReject(r)
  \/ \E r \in DOMAIN loops : WorkerPost(r)
  \/ \E r \in DOMAIN loops, p \in ProgressArgs : Progress(r, p)
  \/ \E r \in DOMAIN loops : TimeoutFireLate(r)
  \/ \E z \in late : LateSettle(z)
  \/ \E z \in late, p \in ProgressArgs : LateProgress(z, p)
SpecProgress == Init /\ [][NextProgress]_vars

\* ---- callers that give maxRetries and timeout in the options of add() ----
\* the values given: maxRetries 0 (no retry) or 2, timeout 2; 0 as timeout
\* stands for an option that is not given
GivenRetries == {0, 2}
GivenTimeouts == {0, 2}
OptsMaxJobs == 1
OptsMaxTime == 2
NextOpts ==
  \/ NextLateOf(OptsMaxJobs, OptsMaxTime)
  \/ \E prio \in Priorities, mr \in GivenRetries, to \in GivenTimeouts :
       AddJob(OptsMaxJobs, "a", prio, 0, mr, to)
SpecOpts == Init /\ [][NextOpts]_vars

\* ---- vocabulary of the properties ----
\* the loops that hold job j between its claim and the outcome of the attempt
Holders(B, j) == BagCount(B, {r \in DOMAIN B : r.pc \in {"got", "running"} /\ r.job = j})
\* the loops whose worker.currentJob is j
CurrentOf(B, j) == BagCount(B, {r \in DOMAIN B : r.currentJob = j})

\* steps of one job
LeftActive(j) ==
  /\ j \in DOMAIN jobs /\ jobs[j].status = "active"
  /\ j \in DOMAIN jobs' /\ jobs'[j].status # "active"
FailedWith(j, e) ==
  LeftActive(j) /\ jobs'[j].status \in {"waiting", "failed"} /\ jobs'[j].error = e

ReadyJobs(js, t) == {j \in DOMAIN js : js[j].status = "waiting" /\ js[j].processAt <= t}
\* a is scheduled no later than b: higher priority, or equal and created no later
Beats(a, b) ==
  a.priority > b.priority \/ (a.priority = b.priority /\ a.createdAt <= b.createdAt)

\* ---- C1 ----
\* C1: mutual exclusion of claims.  A job between claim and outcome (active) is
\* held by exactly one worker loop, a loop holds only an active job, and no two
\* workers have the same job as their currentJob.
C1_MutualExclusion ==
  /\ \A j \in Ids : Holders(loops, j) <= 1 /\ CurrentOf(loops, j) <= 1
  /\ \A j \in DOMAIN jobs : jobs[j].status = "active" => Holders(loops, j) = 1
  /\ \A r \in DOMAIN loops :
       r.pc \in {"got", "running"} => r.job \in DOMAIN jobs /\ jobs[r.job].status = "active"

\* two worker loops run a handler at the same time, each on its own job
C1_TwoWorkersBusy ==
  \E r1, r2 \in DOMAIN loops :
    r1.pc = "running" /\ r2.pc = "running" /\ r1.job # r2.job

\* ---- C2 ----
\* the jobs that become active in the step
Became ==
  {j \in DOMAIN jobs' : jobs'[j].status = "active"
                        /\ (j \in DOMAIN jobs => jobs[j].status = "waiting")}

\* C2: priority ordering.  Every job claimed in a step was waiting with
\* processAt <= now and is scheduled no later than every ready job the step
\* left waiting (higher priority, or equal priority and createdAt no later);
\* a waiting job that is not ready is changed by no step.
C2_PriorityOrdering ==
  [][/\ \A j \in Became :
          /\ jobs'[j].processAt <= now
          /\ \A k \in ReadyJobs(jobs', now) : Beats(jobs'[j], jobs'[k])
     /\ \A j \in DOMAIN jobs :
          (jobs[j].status = "waiting" /\ jobs[j].processAt > now /\ j \in DOMAIN jobs')
            => jobs'[j] = jobs[j]]_vars

\* the first of two ready jobs of equal priority has been claimed, the later waits
C2_TieClaimed ==
  /\ DOMAIN jobs = {1, 2}
  /\ jobs[1].priority = jobs[2].priority
  /\ jobs[1].createdAt < jobs[2].createdAt
  /\ jobs[1].status = "active" /\ jobs[1].attempts = 0
  /\ jobs[2].status = "waiting" /\ jobs[2].attempts = 0
  /\ jobs[2].processAt <= jobs[1].updatedAt

C4_GracefulShutdown ==
  [][((Stop /\ stopPc' = "idle") \/ StopPoll)
       => (WithStatus(jobs', "active") = {} /\ stopPending' = {})]_vars

\* stop() found active jobs at its call, they all have left active: it returns
C4_StopWaited ==
  /\ stopPc = "polling"
  /\ stopPending = {}
  /\ WithStatus(jobs, "active") = {}
  /\ \E j \in DOMAIN jobs : jobs[j].status \in {"completed", "failed", "waiting"}

\* ---- C5 ----
RetryRule(j) ==
  IF jobs[j].attempts < jobs[j].maxRetries
  THEN jobs'[j].status = "waiting" /\ jobs'[j].attempts = jobs[j].attempts + 1
  ELSE jobs'[j].status = "failed" /\ jobs'[j].attempts = jobs[j].attempts

\* C5: timeout enforcement.  An attempt ended by the timeout leaves active not
\* before claim time + timeout, with the timeout error recorded, by the retry
\* rule that also serves a handler error (retry while attempts < maxRetries,
\* else failed), and no worker holds the job afterwards.
C5_TimeoutEnforced ==
  [][\A j \in Ids :
       /\ FailedWith(j, "timeout") =>
            /\ RetryRule(j)
            /\ now >= jobs[j].updatedAt + jobs[j].timeout
            /\ Holders(loops', j) = 0
       /\ FailedWith(j, "handler") => RetryRule(j)]_vars

\* a timed-out job waits for its retry and no worker holds it
C5_TimedOutRetry ==
  \E j \in DOMAIN jobs :
    /\ jobs[j].error = "timeout" /\ jobs[j].status = "waiting"
    /\ jobs[j].attempts = 1
    /\ Holders(loops, j) = 0

\* ---- C6 ----
\* C6: no handler.  When the attempt of a job whose type has no processor ends,
\* the job is failed with the no-processor error, nothing else of it changes,
\* the handler count stays, and its attempts are 0: it is not retried although
\* attempts < maxRetries.
C6_NoHandlerFails ==
  [][\A j \in Ids :
       (LeftActive(j) /\ jobs[j].type \notin processors) =>
         /\ jobs'[j] = [jobs[j] EXCEPT !.status = "failed", !.error = "noprocessor",
                                       !.updatedAt = now]
         /\ jobs[j].attempts = 0
         /\ invoked'[j] = invoked[j]]_vars

\* a job with retries left has failed for lack of a processor
C6_FailedNoProcessor ==
  \E j \in DOMAIN jobs :
    /\ jobs[j].status = "failed" /\ jobs[j].error = "noprocessor"
    /\ jobs[j].attempts = 0 /\ jobs[j].maxRetries >= 1 /\ invoked[j] = 0

C8_RemoveRefusesActive ==
  [][\A id \in Ids :
       LET r == removeJob(jobs, id)
       IN /\ id \notin DOMAIN jobs => (~r.ret /\ r.jobs = jobs)
          /\ (id \in DOMAIN jobs /\ jobs[id].status = "active") =>
               /\ ~r.ret /\ r.jobs = jobs
               /\ id \in DOMAIN jobs'
               /\ Remove(id) => UNCHANGED vars
          /\ (id \in DOMAIN jobs /\ jobs[id].status # "active") =>
               /\ r.ret
               /\ r.jobs = [x \in DOMAIN jobs \ {id} |-> jobs[x]]
               /\ jobs[id].status \in {"waiting", "completed", "failed"}]_vars

\* a job has been removed while another one is active
C8_RemovedBesideActive ==
  /\ \E j \in DOMAIN jobs : jobs[j].status = "active"
  /\ \E j \in 1..(nextId - 1) : j \notin DOMAIN jobs

\* ---- C9 ----
\* C9: a job becomes active only at a time >= its processAt, the one set by
\* add() or by the backoff of its last retry; a job added with delay d does not
\* become active before createdAt + d.
C9_NotBeforeProcessAt ==
  [][\A j \in Became :
       /\ now' >= jobs'[j].processAt
       /\ now' >= jobs'[j].createdAt + jobs'[j].delay
       /\ j \in DOMAIN jobs => jobs'[j].processAt = jobs[j].processAt]_vars

\* a delayed job and a retried job have been claimed
C9_DelayedClaimed ==
  /\ \E j \in DOMAIN jobs : jobs[j].status = "active" /\ jobs[j].delay > 0
  /\ \E j \in DOMAIN jobs : jobs[j].status = "active" /\ jobs[j].attempts > 0

\* ---- C10 ----
PowersOfTwo == <<1, 2, 4, 8, 16>>

\* C10: backoff.  The k-th failure that leads to a retry sets attempts to k and
\* processAt to now + retryDelay * 2^(k-1), which is no earlier than the
\* processAt the job had before.
C10_Backoff ==
  [][\A j \in Ids :
       (LeftActive(j) /\ jobs'[j].status = "waiting") =>
         LET k == jobs'[j].attempts
         IN /\ k = jobs[j].attempts + 1
            /\ jobs'[j].processAt = now + config.retryDelay * PowersOfTwo[k]
            /\ jobs'[j].processAt >= jobs[j].processAt]_vars

\* the third retry of a job, 4 units after its third failure
C10_ThirdRetry ==
  \E j \in DOMAIN jobs :
    /\ jobs[j].status = "waiting" /\ jobs[j].attempts = 3
    /\ jobs[j].processAt = jobs[j].updatedAt + 4 * config.retryDelay

\* ---- C11 ----
\* the step is a call of add(): it takes the next id
AddStep == nextId' = nextId + 1

\* C11 as claimed: when add() returns, the new job is stored with status waiting,
\* attempts 0 and processAt = creation time + delay, and totalJobs has grown by
\* one, whether or not the pool was running.
C11_AddLeavesWaiting ==
  [][AddStep =>
       /\ nextId \in DOMAIN jobs'
       /\ jobs'[nextId].status = "waiting"
       /\ jobs'[nextId].attempts = 0
       /\ jobs'[nextId].processAt = jobs'[nextId].createdAt + jobs'[nextId].delay
       /\ stats'.totalJobs = stats.totalJobs + 1]_vars

\* C11 amended: when add() returns, the new job is stored with attempts 0,
\* createdAt = now and processAt = now + delay, and totalJobs has grown by one;
\* its status is waiting when the pool was running before the call or the job
\* is delayed; otherwise add() has started the pool and the job is waiting or
\* already active, claimed by one of the workers that add() started.
C11_AddCreatesJob ==
  [][AddStep =>
       /\ nextId \in DOMAIN jobs' /\ nextId \notin DOMAIN jobs
       /\ jobs'[nextId].attempts = 0
       /\ jobs'[nextId].createdAt = now
       /\ jobs'[nextId].processAt = now + jobs'[nextId].delay
       /\ stats'.totalJobs = stats.totalJobs + 1
       /\ jobs'[nextId].status \in {"waiting", "active"}
       /\ (isRunning \/ jobs'[nextId].delay > 0) => jobs'[nextId].status = "waiting"
       /\ jobs'[nextId].status = "active" => Holders(loops', nextId) = 1
       /\ isRunning']_vars

\* a job is active at its creation time in a pool that add() started, and a
\* delayed job added to the same pool waits
C11_ClaimedAtCreation ==
  /\ DOMAIN jobs = {1, 2}
  /\ processors = {}
  /\ jobs[1].status = "active" /\ jobs[1].updatedAt = jobs[1].createdAt
  /\ jobs[2].status = "waiting" /\ jobs[2].delay > 0
  /\ \E r \in DOMAIN loops : r.pc = "got" /\ r.job = 1

\* ---- C12 ----
\* C12: add() with an empty job type is rejected: it creates no job, leaves the
\* store unchanged and changes no counter.
C12_EmptyTypeRejected ==
  [][\A prio \in Priorities, delay \in Delays, mr \in MaxRetriesOpts, to \in TimeoutOpts :
       AddJob(AddMaxJobs, "", prio, delay, mr, to)
         => (jobs' = jobs /\ stats' = stats /\ nextId' = nextId)]_vars

\* ---- C13 ----
StatusSteps ==
  {<<"waiting", "active">>, <<"active", "completed">>, <<"active", "waiting">>,
   <<"active", "failed">>}

\* C13: the only status changes of a stored job are waiting -> active,
\* active -> completed, active -> waiting and active -> failed; in particular a
\* completed or failed job never changes status again.
C13_StateMachine ==
  [][\A j \in DOMAIN jobs \cap DOMAIN jobs' :
       jobs'[j].status # jobs[j].status
         => <<jobs[j].status, jobs'[j].status>> \in StatusSteps]_vars

\* ---- C14 ----
\* the third invocation of the handler of a job with maxRetries = 3, after a
\* thrown error, resolves in this step of loop r
FlakySucceeds(r) ==
  /\ HandlerResolve(r)
  /\ invoked[r.job] = 3
  /\ jobs[r.job].maxRetries = 3
  /\ jobs[r.job].error = "handler"

\* C14 as claimed: a handler that fails on its first two attempts and succeeds
\* on the third leaves a job with maxRetries = 3 completed with attempts = 3.
C14_FlakyAttempts3 ==
  [][\A r \in DOMAIN loops :
       FlakySucceeds(r) =>
         (jobs'[r.job].status = "completed" /\ jobs'[r.job].attempts = 3)]_vars

\* C14 amended: ... completed with attempts = 2: attempts counts the retries,
\* not the executions.
C14_FlakyAttempts2 ==
  [][\A r \in DOMAIN loops :
       FlakySucceeds(r) =>
         (jobs'[r.job].status = "completed" /\ jobs'[r.job].attempts = 2)]_vars

\* a job has completed on the third invocation of its handler
C14_ThirdAttemptSucceeded ==
  \E j \in DOMAIN jobs :
    /\ jobs[j].status = "completed" /\ invoked[j] = 3 /\ jobs[j].maxRetries = 3
    /\ jobs[j].error = "handler"

\* ---- C15 ----
\* C15: a job added with options.maxRetries = 0 (every add() of this model
\* passes 0, MaxRetriesOpts) whose attempt times out ends failed with the
\* timeout error after exactly one invocation of the handler: it is not retried.
C15_ZeroRetriesFailsOnce ==
  [][\A j \in Ids :
       FailedWith(j, "timeout") =>
         /\ jobs'[j].status = "failed"
         /\ jobs'[j].attempts = 0
         /\ invoked[j] = 1]_vars

\* ---- C16 ----
\* the job has been started at least once
Started(job) == job.status # "waiting" \/ job.attempts > 0

\* C16 as claimed: with a single worker, of a job added with priority 5 and a
\* job added after it with priority 10 (neither delayed), the first is not
\* started before the second.
C16_HighPriorityFirst ==
  \A a, b \in DOMAIN jobs :
    (/\ a < b
     /\ jobs[a].priority = 5 /\ jobs[a].delay = 0
     /\ jobs[b].priority = 10 /\ jobs[b].delay = 0
     /\ Started(jobs[a])) => Started(jobs[b])

\* C16 amended: with a single worker, while a job of priority 5 and a job of
\* priority 10 are both waiting and ready, no step starts the job of priority 5:
\* the worker's next claim takes the job of priority 10, also when it was
\* added later.
C16_HighFirstWhenBothWait ==
  [][\A a, b \in ReadyJobs(jobs, now) :
       (jobs[a].priority = 5 /\ jobs[b].priority = 10 /\ a \in DOMAIN jobs')
         => jobs'[a] = jobs[a]]_vars

\* the job of priority 10, added second, runs while the job of priority 5,
\* added first and never started, waits
C16_SecondStartedFirst ==
  /\ DOMAIN jobs = {1, 2}
  /\ jobs[1].priority = 5 /\ jobs[1].delay = 0
  /\ jobs[2].priority = 10 /\ jobs[2].delay = 0
  /\ jobs[1].status = "waiting" /\ jobs[1].attempts = 0
  /\ jobs[2].status = "active"

\* ---- C17 ----
\* C17: with two workers and a registered handler that always succeeds, no job
\* ever fails, no handler is invoked twice for a job and a completed job has had
\* exactly one invocation; from some moment on every job added is completed and
\* the completed count equals the number of jobs added.
C17_AllComplete ==
  /\ [](\A j \in DOMAIN jobs :
         /\ jobs[j].status # "failed"
         /\ invoked[j] <= 1
         /\ jobs[j].status = "completed" => invoked[j] = 1)
  /\ <>[](/\ \A j \in 1..(nextId - 1) :
                j \in DOMAIN jobs /\ jobs[j].status = "completed"
          /\ stats.completedJobs = nextId - 1)

\* all the jobs added are completed, each after one invocation, while both
\* workers are alive
C17_AllDone ==
  /\ DOMAIN jobs = 1..LiveMaxJobs
  /\ \A j \in DOMAIN jobs : jobs[j].status = "completed" /\ invoked[j] = 1
  /\ stats.completedJobs = LiveMaxJobs /\ stats.failedJobs = 0
  /\ LiveLoops(loops) = 2

\* ---- C18 ----
\* the completed and failed jobs whose updatedAt is older than t - d
Swept(js, t, d) ==
  {j \in DOMAIN js : js[j].status \in {"completed", "failed"} /\ js[j].updatedAt < t - d}

\* C18: clean(olderThan) removes exactly the completed and failed jobs whose
\* updatedAt is older than now - olderThan and returns their number; every other
\* job stays in the store unchanged, and the step changes nothing but the
\* store and the counters.
C18_SweepExact ==
  /\ [](\A d \in CleanAges :
         LET r == cleanJobs(jobs, now, d)
         IN /\ DOMAIN r.jobs = DOMAIN jobs \ Swept(jobs, now, d)
            /\ \A j \in DOMAIN r.jobs : r.jobs[j] = jobs[j]
            /\ r.ret = Cardinality(Swept(jobs, now, d)))
  /\ [][\A d \in CleanAges :
         Clean(d) =>
           /\ DOMAIN jobs' = DOMAIN jobs \ Swept(jobs, now, d)
           /\ \A j \in DOMAIN jobs' : jobs'[j] = jobs[j]
           /\ \A j \in DOMAIN jobs :
                jobs[j].status \in {"waiting", "active"} => j \in DOMAIN jobs'
           /\ UNCHANGED <<late, config, processors, isRunning, loops, now, nextId,
                          delayTimers, stopVars>>]_vars

\* a job is gone and a terminal job one unit old, which clean(1) keeps and
\* clean(0) removes, is stored beside a job that is not terminal
C18_OldSweptYoungKept ==
  /\ \E j \in 1..(nextId - 1) : j \notin DOMAIN jobs
  /\ \E j \in DOMAIN jobs :
       jobs[j].status \in {"completed", "failed"} /\ jobs[j].updatedAt = now - 1

C20_StartIdempotent ==
  [][isRunning =>
       /\ StartIfStopped(jobs, stats) = [jobs |-> jobs, stats |-> stats, loops |-> loops]
       /\ Start => UNCHANGED vars]_vars

\* the pool runs with its N workers, one of them busy
C20_RunningPool ==
  /\ isRunning
  /\ LiveLoops(loops) = config.concurrency
  /\ \E r \in DOMAIN loops : r.pc = "running"
  /\ \E r \in DOMAIN loops : r.pc = "sleep"

\* ---- C21: the pool has a fixed size ----
\* C21: at every moment the number of live worker loops, and with it the
\* number of jobs that are active, is at most the configured concurrency,
\* whatever start(), stop(), add() and process() calls came before.
C21_FixedPoolSize ==
  /\ LiveLoops(loops) <= config.concurrency
  /\ Cardinality(WithStatus(jobs, "active")) <= config.concurrency

\* ---- C22: stop() halts claiming ----
\* C22: a step that leaves the pool stopped (isRunning false after it) moves no
\* job from waiting to active, and the call of stop() itself changes no job and
\* ends no loop: the attempts in flight go on to their outcome.  Claiming
\* resumes only with a step that starts the pool again.
C22_NoClaimWhileStopped ==
  [][/\ ~isRunning' => Became = {}
     /\ Stop => (jobs' = jobs /\ loops' = loops)]_vars

\* stop() was called with a job active; the attempt has finished, every loop
\* has ended, and a ready job with a handler is left waiting, unclaimed
C22_ReadyJobLeftWaiting ==
  /\ ~isRunning
  /\ stopPc = "polling"
  /\ stopPending = {}
  /\ LiveLoops(loops) = 0
  /\ \E j \in DOMAIN jobs : jobs[j].status = "completed"
  /\ \E j \in DOMAIN jobs : IsReady(jobs[j], now) /\ jobs[j].type \in processors

\* ---- C23: stop() returns ----
\* C23: a call of stop() that found jobs active eventually returns, and a job
\* that is active eventually leaves active: every attempt in flight reaches an
\* outcome, by the handler's result, its error, or the timeout.
C23_StopReturns ==
  /\ (stopPc = "polling") ~> (stopPc = "idle")
  /\ \A j \in Ids :
       (j \in DOMAIN jobs /\ jobs[j].status = "active")
         ~> (j \notin DOMAIN jobs \/ jobs[j].status # "active")

\* ---- C24: the order of shutdown() ----
\* C24: shutdown() ends the process only after its stop() has returned, and at
\* the moment the process ends no job is active; the sweep timer is cancelled
\* with the exit, so that after it no sweep (and no other step) changes the
\* queue.
C24_ShutdownOrder ==
  [][/\ (stopPc # "exited" /\ stopPc' = "exited")
          => (stopPc \in {"shutReturned", "shutPolling"}
              /\ WithStatus(jobs, "active") = {})
     /\ stopPc = "exited" => UNCHANGED vars]_vars

\* ---- C25: getJobs ----
\* the statuses a caller may ask for ("null": no filter) and the limits
StatusFilters == {"null", "waiting", "active", "completed", "failed"}
Limits == 0..(LiveMaxJobs + 1)
\* a goes strictly before b in the order of the listing
Precedes(a, b) ==
  a.priority > b.priority \/ (a.priority = b.priority /\ a.createdAt < b.createdAt)

\* C25: getJobs(status, limit) lists stored jobs of the given status only (all
\* jobs without a status), each once, in the order priority descending then
\* createdAt ascending; it lists min(limit, number of matching jobs) jobs, and
\* no matching job it leaves out goes before a job it lists.
C25_GetJobsOrdered ==
  \A status \in StatusFilters, limit \in Limits :
    LET L == getJobs(jobs, status, limit)
        M == IF status = "null" THEN DOMAIN jobs ELSE WithStatus(jobs, status)
        Listed == {L[i] : i \in 1..Len(L)}
    IN /\ Listed \subseteq M
       /\ Cardinality(Listed) = Len(L)
       /\ Len(L) = IF limit < Cardinality(M) THEN limit ELSE Cardinality(M)
       /\ \A i, k \in 1..Len(L) : i < k => ~Precedes(jobs[L[k]], jobs[L[i]])
       /\ \A m \in M \ Listed, e \in Listed : ~Precedes(jobs[m], jobs[e])

\* three jobs of two priorities and two creation times, in more than one
\* status; the listing of all jobs differs from the order of insertion and a
\* limit of 2 cuts it
C25_ListReordersAndCuts ==
  /\ Cardinality(DOMAIN jobs) = 3
  /\ Cardinality({jobs[j].status : j \in DOMAIN jobs}) > 1
  /\ Cardinality({jobs[j].createdAt : j \in DOMAIN jobs}) > 1
  /\ getJobs(jobs, "null", 3) # SortedIds(DOMAIN jobs)
  /\ Len(getJobs(jobs, "null", 2)) = 2
  /\ Len(getJobs(jobs, "waiting", 2)) = 1

\* ---- C26: the listing and the scheduler agree ----
\* the first job of a listing that is ready at time t; 0 when there is none
RECURSIVE FirstReady(_, _, _)
FirstReady(L, js, t) ==
  IF L = <<>> THEN 0
  ELSE IF IsReady(js[Head(L)], t) THEN Head(L) ELSE FirstReady(Tail(L), js, t)

\* C26 as stated: the job that getNextJob would claim is the first ready job
\* of getJobs('waiting'), the listing with the default limit.
C26_ListingIsSchedule ==
  getNextJob(jobs, now) = FirstReady(getJobs(jobs, "waiting", DefaultLimit), jobs, now)

\* C26: the job that getNextJob would claim is the first ready job of
\* getJobs('waiting', limit) for a limit that is at least the number of
\* waiting jobs, also when priorities tie; when no job is ready neither names
\* one.
C26_FullListingIsSchedule ==
  \A limit \in Cardinality(WithStatus(jobs, "waiting"))..Cardinality(DOMAIN jobs) :
    getNextJob(jobs, now) = FirstReady(getJobs(jobs, "waiting", limit), jobs, now)

\* more waiting jobs than the default limit, the head of the listing is not
\* ready, and two ready jobs tie on the priority behind it
C26_TieBehindBacklog ==
  /\ Cardinality(WithStatus(jobs, "waiting")) > DefaultLimit
  /\ ~IsReady(jobs[Head(getJobs(jobs, "waiting", DefaultLimit))], now)
  /\ \E a, b \in ReadyJobs(jobs, now) :
       a # b /\ jobs[a].priority = jobs[b].priority /\ getNextJob(jobs, now) = a

\* ---- C27: result and error exclude each other ----
\* C27: no stored job has both a result and an error; a completed job has a
\* result and no error, a failed job has an error and no result.
C27_ResultXorError ==
  \A j \in DOMAIN jobs :
    /\ ~(jobs[j].result # "null" /\ jobs[j].error # "null")
    /\ jobs[j].status = "completed" => (jobs[j].result # "null" /\ jobs[j].error = "null")
    /\ jobs[j].status = "failed" => (jobs[j].error # "null" /\ jobs[j].result = "null")

\* ---- C28: getStats() reports derived counts ----
\* the number of stored jobs of a status
NumberOf(st) == Cardinality({j \in DOMAIN jobs : jobs[j].status = st})

\* C28: in every state the waiting, active, completed and failed counts that
\* getStats() returns are the numbers of stored jobs of that status, and its
\* delayed count is the number of stored jobs that are waiting with
\* processAt > now, delayed at add() or waiting for a retry alike.
C28_StatsDerived ==
  LET s == getStats(stats, jobs, now)
  IN /\ s.waitingJobs = NumberOf("waiting")
     /\ s.activeJobs = NumberOf("active")
     /\ s.completedJobs = NumberOf("completed")
     /\ s.failedJobs = NumberOf("failed")
     /\ s.delayedJobs = Cardinality({j \in DOMAIN jobs :
                           jobs[j].status = "waiting" /\ jobs[j].processAt > now})

\* one job delayed at add() and one waiting for its retry, both not yet due,
\* while the stored delayed counter says something else
C28_BothKindsDelayed ==
  /\ \E j \in DOMAIN jobs :
       jobs[j].status = "waiting" /\ jobs[j].attempts = 0 /\ jobs[j].processAt > now
  /\ \E j \in DOMAIN jobs :
       jobs[j].status = "waiting" /\ jobs[j].attempts > 0 /\ jobs[j].processAt > now
  /\ stats.delayedJobs # 2

\* ---- C29: notifications are informational only ----
\* a change of job j that the queue makes when nobody subscribes: the claim,
\* or one of the three outcomes of an attempt
QuietJobStep(j) ==
  \/ jobs'[j] = jobs[j]
  \/ /\ jobs[j].status = "waiting" /\ jobs'[j].status = "active"
     /\ jobs'[j].attempts = jobs[j].attempts
  \/ /\ jobs[j].status = "active" /\ jobs'[j].status \in {"completed", "failed"}
     /\ jobs'[j].attempts = jobs[j].attempts
  \/ /\ jobs[j].status = "active" /\ jobs'[j].status = "waiting"
     /\ jobs'[j].attempts = jobs[j].attempts + 1

\* C29: what subscribers do has no effect on the state machine.  With
\* subscribers of any behaviour every step changes the jobs as a step of the
\* queue without subscribers does (claim, completion, retry, failure, each with
\* its effect on attempts), moves the active counter with the jobs or recounts
\* it, and every active job is with a worker that brings it to its outcome.
C29_Informational ==
  /\ [][/\ \A j \in DOMAIN jobs \cap DOMAIN jobs' : QuietJobStep(j)
        /\ \/ stats'.activeJobs - stats.activeJobs = NumberOf("active")' - NumberOf("active")
           \/ stats'.activeJobs = NumberOf("active")']_vars
  /\ [](\A j \in DOMAIN jobs : jobs[j].status = "active" => Holders(loops, j) = 1)

\* ---- C30: per-job errors never escape ----
\* C30: whatever the handler of an attempt throws or rejects with, the step
\* that handles it records the failure in the job's error field, takes the job
\* out of active (waiting for a retry, or failed), and leaves the worker loop
\* alive to go back to the head of the loop.
C30_ErrorsCaptured ==
  [][\A r \in DOMAIN loops :
       (HandlerReject(r) \/ HandlerRejectsPlain(r) \/ HandlerRejectsNullish(r))
         => /\ jobs'[r.job].status \in {"waiting", "failed"}
            /\ jobs'[r.job].error \notin {"null", "undefined"}
            /\ LiveLoops(loops') = LiveLoops(loops)]_vars

\* ---- C31: the stored counters are exact ----
\* C31: in every reachable state the stored counters waitingJobs, activeJobs,
\* completedJobs and failedJobs are not negative and each is the number of
\* stored jobs of that status.
C31_CountersExact ==
  /\ stats.waitingJobs = NumberOf("waiting")
  /\ stats.activeJobs = NumberOf("active")
  /\ stats.completedJobs = NumberOf("completed")
  /\ stats.failedJobs = NumberOf("failed")
  /\ stats.waitingJobs >= 0 /\ stats.activeJobs >= 0
  /\ stats.completedJobs >= 0 /\ stats.failedJobs >= 0

\* ---- C32: attempts counts the retries ----
\* C32: a job is created with attempts 0; a step adds exactly one to attempts
\* when it takes the job from active to waiting (a retry) and no step changes
\* attempts otherwise: not the claim, not the completion, not the permanent
\* failure.  A job whose handler has been invoked once and that is completed
\* has attempts 0.
C32_AttemptsCountRetries ==
  /\ [][\A j \in DOMAIN jobs' :
          IF j \notin DOMAIN jobs THEN jobs'[j].attempts = 0
          ELSE IF jobs[j].status = "active" /\ jobs'[j].status = "waiting"
               THEN jobs'[j].attempts = jobs[j].attempts + 1
               ELSE jobs'[j].attempts = jobs[j].attempts]_vars
  /\ [](\A j \in DOMAIN jobs :
          (jobs[j].status = "completed" /\ invoked[j] = 1) => jobs[j].attempts = 0)

\* ---- C33: the order of the notifications of one job ----
\* Each notification is emitted by the function that makes the transition:
\* job:added by add() after jobs.set and before start() (l.92), job:started by
\* getNextJob (l.336), job:completed, job:failed and job:retry by completeJob,
\* failJob and retryJob (l.395, 409, 422).  The step shows which were emitted
EmitsAdded(j) == j \notin DOMAIN jobs /\ j \in DOMAIN jobs'
EmitsStarted(j) == j \in Became
EmitsOutcome(j) ==
  /\ j \in DOMAIN jobs /\ j \in DOMAIN jobs'
  /\ \/ jobs'[j].status \in {"completed", "failed"} /\ jobs'[j].status # jobs[j].status
     \/ jobs'[j].status = "waiting" /\ jobs'[j].attempts # jobs[j].attempts

\* C33: job:added is emitted once for a job, for an id not used before, and no
\* job:started comes before it; job:completed, job:retry and job:failed are
\* emitted only for a job that is active, that is after the job:started of the
\* attempt; once a job is completed or failed no notification of a transition
\* is emitted for it any more.
C33_NotificationOrder ==
  [][\A j \in Ids :
       /\ EmitsAdded(j) => (j = nextId /\ nextId' > j)
       /\ EmitsStarted(j) => (EmitsAdded(j) \/ jobs[j].status = "waiting")
       /\ EmitsOutcome(j) => jobs[j].status = "active"
       /\ (j \in DOMAIN jobs /\ jobs[j].status \in {"completed", "failed"})
            => ~EmitsStarted(j) /\ ~EmitsOutcome(j)]_vars

\* ---- C34: progress ----
\* C34: the progress of every stored job is within 0..100; a call of
\* progress(p) stores p when it is within 0..100, 0 when it is below and 100
\* when it is above; a completion stores 100; and getNextJob selects the same
\* job whatever the values of progress are.
C34_ProgressBounded ==
  /\ [](\A j \in DOMAIN jobs : jobs[j].progress \in 0..100)
  /\ [](\A j \in DOMAIN jobs, p \in {0, 50, 100} :
          getNextJob([jobs EXCEPT ![j].progress = p], now) = getNextJob(jobs, now))
  /\ [][/\ \A r \in DOMAIN loops, p \in ProgressArgs :
             Progress(r, p) =>
               jobs'[r.job].progress = (IF p < 0 THEN 0 ELSE IF p > 100 THEN 100 ELSE p)
        /\ \A j \in DOMAIN jobs \cap DOMAIN jobs' :
             (jobs[j].status # "completed" /\ jobs'[j].status = "completed")
               => jobs'[j].progress = 100]_vars

\* two ready jobs wait, one of them retried after its handler had reported
\* progress, while the other, of higher priority or older, has none
C34_ProgressBesideSelection ==
  \E a, b \in ReadyJobs(jobs, now) :
    /\ jobs[a].progress = 50 /\ jobs[b].progress = 0
    /\ getNextJob(jobs, now) = b

\* ---- C35: the creation-time fields ----
\* C35: no step changes the type, priority, maxRetries, timeout or createdAt
\* of a stored job (its id is its key), and a job added with maxRetries mr and
\* a timeout to in the options is stored with maxRetries mr and timeout to.
C35_CreationFieldsKept ==
  [][/\ \A j \in DOMAIN jobs \cap DOMAIN jobs' :
          /\ jobs'[j].type = jobs[j].type
          /\ jobs'[j].priority = jobs[j].priority
          /\ jobs'[j].maxRetries = jobs[j].maxRetries
          /\ jobs'[j].timeout = jobs[j].timeout
          /\ jobs'[j].createdAt = jobs[j].createdAt
     /\ \A prio \in Priorities, mr \in GivenRetries, to \in GivenTimeouts :
          AddJob(OptsMaxJobs, "a", prio, 0, mr, to)
            => /\ jobs'[nextId].maxRetries = mr
               /\ to # 0 => jobs'[nextId].timeout = to]_vars

\* C36: a job a worker begins to execute while a handler of its type is
\* registered runs with that handler and is not failed for lack of one, and
\* add() of a job whose type has no handler yet leaves the job waiting: it does
\* not itself hand the job to a worker, whose next step would fail it.
C36_HandlerMayFollowAdd ==
  [][/\ \A r \in DOMAIN loops :
          (WorkerBegin(r) /\ jobs[r.job].type \in processors)
            => /\ invoked'[r.job] = invoked[r.job] + 1
               /\ jobs'[r.job].status = "active"
     /\ \A type \in Types, prio \in Priorities, delay \in Delays,
           mr \in MaxRetriesOpts, to \in TimeoutOpts :
          (AddJob(MaxJobs, type, prio, delay, mr, to) /\ type \notin processors)
            => /\ jobs'[nextId].status = "waiting"
               /\ \A r \in DOMAIN loops' : r.job # nextId]_vars

\* the worker loops that hold a job they have just claimed
Claiming(B) == BagCount(B, {r \in DOMAIN B : r.pc = "got"})

\* C37: after every add() and every process() isRunning is true; when the pool
\* was not running before the call, the call has started config.concurrency
\* worker loops, and these have claimed the jobs that were ready (no ready job
\* is left waiting unless each new loop has claimed one).
C37_AddAndProcessStart ==
  [][(nextId' # nextId \/ processors' # processors)
       => /\ isRunning'
          /\ ~isRunning
               => /\ LiveLoops(loops') = LiveLoops(loops) + config.concurrency
                  /\ \/ ReadyJobs(jobs', now) = {}
                     \/ Claiming(loops') >= Claiming(loops) + config.concurrency]_vars

\* a pool that was stopped and runs again (it has more loops than one start()
\* creates) holds a job claimed in the call that restarted it
C37_RestartedAndClaimed ==
  /\ isRunning
  /\ LiveLoops(loops) > config.concurrency
  /\ \E r \in DOMAIN loops :
       /\ r.pc = "got"
       /\ r.job \in DOMAIN jobs
       /\ jobs[r.job].status = "active"
       /\ jobs[r.job].createdAt = jobs[r.job].updatedAt

\* C38: the step in which a handler invocation that lost the race against its
\* timeout returns or throws at last changes no stored job (status, result,
\* error, attempts and every other field) and no counter.
C38_LateOutcomeIgnored ==
  [][late' # late /\ late' \subseteq late
       => /\ DOMAIN jobs' = DOMAIN jobs
          /\ \A j \in DOMAIN jobs :
               /\ jobs'[j].status = jobs[j].status
               /\ jobs'[j].result = jobs[j].result
               /\ jobs'[j].error = jobs[j].error
               /\ jobs'[j].attempts = jobs[j].attempts
          /\ stats' = stats]_vars

\* a job whose first attempt timed out was retried and is being executed again,
\* and the handler invocation of the first attempt has settled meanwhile
C38_SettledDuringRetry ==
  \E r \in DOMAIN loops :
    /\ r.pc = "running"
    /\ r.job \in DOMAIN jobs
    /\ jobs[r.job].status = "active"
    /\ jobs[r.job].error = "timeout"
    /\ jobs[r.job].attempts = 1
    /\ invoked[r.job] = 2
    /\ \A z \in late : z[1] # r.job

\* the jobs that were added and are no longer stored
Gone == (1..(nextId - 1)) \ DOMAIN jobs

\* C39: remove() takes a job out of the store only while it is not active, no
\* worker loop holds or executes a job that is no longer stored, a job that
\* left the store never comes back, and the delay timer of a job that is no
\* longer stored changes no job and no counter when it fires.
C39_RemovedStaysOut ==
  /\ [](\A r \in DOMAIN loops : r.pc \in {"got", "running"} => r.job \notin Gone)
  /\ [][/\ \A j \in DOMAIN jobs \ DOMAIN jobs' : jobs[j].status # "active"
        /\ \A j \in Gone : j \notin DOMAIN jobs'
        /\ \A id \in delayTimers \cap Gone :
             id \notin delayTimers' => jobs' = jobs /\ stats' = stats]_vars

\* a delayed job was removed before its timer fired, while the pool runs and a
\* worker is about to look for the next job
C39_RemovedBeforeTimer ==
  /\ isRunning
  /\ delayTimers \cap Gone # {}
  /\ \E r \in DOMAIN loops : r.pc = "sleep"

\* C40: the stored counter delayedJobs is never negative.
C40_DelayedNotNegative == stats.delayedJobs >= 0

TypeOK ==
  /\ config \in Configs \cup RetryConfigs \cup PrioConfigs
  /\ DOMAIN jobs \subseteq 1..(nextId - 1)
  /\ DOMAIN invoked = DOMAIN jobs
  /\ isRunning \in BOOLEAN
  /\ \A r \in DOMAIN loops : r.pc \in {"sleep", "got", "running", "post", "caughtRetry", "caughtFail"}
  /\ LiveLoops(loops) <= MaxLoops
====
